---- MODULE Spec2Model ----
(***************************************************************************)
(* Model of tuige's request cache (src/src/request.rs): the two-tier       *)
(* Cache (an LruCache in memory over a cacache store on disk), the         *)
(* get-or-compute protocol Cache::cache, its three callers and the emote   *)
(* download pipeline of get_global_emotes.                                 *)
(*                                                                         *)
(* Text is modelled as sequences of one-character strings, so that "is a   *)
(* substring of" is decidable; the payload strings of cached values        *)
(* (client ids, user ids, emote names) and bytes are small naturals.       *)
(***************************************************************************)
EXTENDS Naturals, Integers, Sequences, FiniteSets, TLC

(***************************************************************************)
(* Bounds of the model                                                     *)
(***************************************************************************)
\* longest emote catalog the remote endpoint returns under Spec
MaxCatalog == 1
\* length of the emote catalog under SpecPipe (more items than the window)
PipeItems == 6
\* length of the emote catalogs under SpecCatalog
CatalogItems == 3
\* most emotes in an EmoteSet under SpecCodec
MaxEmotes == 2
\* most characters typed into the text area
MaxText == 1
\* most events waiting in the channel to Tui::run
MaxQueue == 1
\* most messages sent with Enter under SpecUi
MaxSends == 2
\* most chat messages received under SpecChat
MaxPushes == 4

(***************************************************************************)
(* Program constants                                                       *)
(***************************************************************************)
\* LruCache::new(NonZero::new(100)): the capacity, scaled down so that the
\* model's handful of keys can fill the table
LruCapacity == 2
\* .buffer_unordered(5)
FetchWidth == 5
\* VecDeque::with_capacity(100) in Chat::new, scaled to 2
LinesRequested == 2

(***************************************************************************)
(* Text                                                                    *)
(***************************************************************************)
UrlValidate ==
  <<"h","t","t","p","s",":","/","/","i","d",".","t","w","i","t","c","h",
    ".","t","v","/","o","a","u","t","h","2","/","v","a","l","i","d","a",
    "t","e">>

UrlUsersPrefix ==
  <<"h","t","t","p","s",":","/","/","a","p","i",".","t","w","i","t","c",
    "h",".","t","v","/","h","e","l","i","x","/","u","s","e","r","s","?",
    "l","o","g","i","n","=">>

UrlGlobalEmotes ==
  <<"h","t","t","p","s",":","/","/","a","p","i",".","t","w","i","t","c",
    "h",".","t","v","/","h","e","l","i","x","/","c","h","a","t","/","e",
    "m","o","t","e","s","/","g","l","o","b","a","l">>

\* access tokens a user may configure: secrets, each holding a character ("q")
\* that occurs in no login name, no endpoint URL and no hexadecimal digest
Tokens == { <<"q","a">>, <<"a","q">> }

\* login names
Usernames == { <<"a","b">> }

IsSubstring(s, t) ==
  \E i \in 0..(Len(t) - Len(s)) : SubSeq(t, i + 1, i + Len(s)) = s

HexDigits ==
  <<"0","1","2","3","4","5","6","7","8","9","a","b","c","d","e","f">>

CharCode(c) == IF c = "a" THEN 1 ELSE IF c = "q" THEN 2 ELSE 3

RECURSIVE Compress(_, _)
Compress(bytes, acc) ==
  IF bytes = <<>> THEN acc
  ELSE Compress(Tail(bytes), (acc * 31 + CharCode(Head(bytes)) + 7) % 65536)

\* Display of a digest: lower-case hexadecimal
ToHex(n) ==
  << HexDigits[((n \div 4096) % 16) + 1], HexDigits[((n \div 256) % 16) + 1],
     HexDigits[((n \div 16) % 16) + 1],   HexDigits[(n % 16) + 1] >>

\* blake3::hash(token.as_bytes()), as displayed by format!: a stand-in
\* digest that is injective on Tokens and yields hexadecimal text
\* faulty variant: the token itself in place of its digest
HashedTokenPlain(token) == token
HashedToken(token) == ToHex(Compress(token, 0))

\* key: &format!("{url}/{hashed_token}")
ClientIdKey(token) == UrlValidate \o <<"/">> \o HashedToken(token)

\* url = format!("https://api.twitch.tv/helix/users?login={username}")
UserIdKey(username) == UrlUsersPrefix \o username

EmotesKey == UrlGlobalEmotes

\* a key of a direct Cache::cache call, as in populate("A", ...)
PlainKey == <<"A">>

Keys ==
  { ClientIdKey(t) : t \in Tokens } \cup { UserIdKey(u) : u \in Usernames }
    \cup { EmotesKey, PlainKey }

(***************************************************************************)
(* Values: RawCacheValue (wire form) and Value (runtime form)              *)
(***************************************************************************)
ClientIds == {11, 12}
UserIds == {21}
EmoteNames == {31}
\* the client id the validation endpoint reports for the configured tokens
AppClientId == CHOOSE c \in ClientIds : TRUE

\* image bytes: a one-byte format magic followed by the picture
WebPBytes(img) == <<87, img>>
PngBytes(img) == <<80, img>>
GarbageBytes == <<0>>

\* every value is a record of one shape: the variant's tag, the string of
\* ClientId and UserId (0 otherwise), the emotes of EmoteSet (<<>> otherwise)
RawClientId(s) == [tag |-> "ClientId", str |-> s, emotes |-> <<>>]
RawUserId(s) == [tag |-> "UserId", str |-> s, emotes |-> <<>>]
RawEmoteSet(es) == [tag |-> "EmoteSet", str |-> 0, emotes |-> es]
RawEmote(name, data) == [name |-> name, data |-> data]

\* image::load_from_memory_with_format(&data, ImageFormat::WebP) is Ok
IsWebP(data) == Len(data) = 2 /\ data[1] = 87

\* image::load_from_memory(bytes) is Ok: the format is guessed
IsImage(bytes) == Len(bytes) = 2 /\ bytes[1] \in {80, 87}

\* impl From<RawEmote> for Emote, where the load succeeds
EmoteFrom(raw) == [name |-> raw.name, image |-> raw.data[2]]

\* impl From<RawCacheValue> for Value panics: some emote's load .unwrap()
\* fails
FromPanics(raw) ==
  /\ raw.tag = "EmoteSet"
  /\ \E i \in 1..Len(raw.emotes) : ~IsWebP(raw.emotes[i].data)

\* impl From<RawCacheValue> for Value
ValueFrom(raw) ==
  [tag |-> raw.tag, str |-> raw.str,
   emotes |-> [i \in 1..Len(raw.emotes) |-> EmoteFrom(raw.emotes[i])]]

(***************************************************************************)
(* The wire encoding: rkyv::to_bytes and the validating rkyv::from_bytes   *)
(***************************************************************************)
RECURSIVE EncodeEmotes(_)
EncodeEmotes(es) ==
  IF es = <<>> THEN <<>>
  ELSE <<Head(es).name, Len(Head(es).data)>> \o Head(es).data
         \o EncodeEmotes(Tail(es))

\* faulty variant: UserId is written under ClientId's discriminant
ToBytesOneTag(raw) ==
  IF raw.tag \in {"ClientId", "UserId"} THEN <<1, raw.str>>
  ELSE <<3, Len(raw.emotes)>> \o EncodeEmotes(raw.emotes)

\* rkyv::to_bytes::<RawCacheValue, 1024>(val)
ToBytes(raw) ==
  IF raw.tag = "ClientId" THEN <<1, raw.str>>
  ELSE IF raw.tag = "UserId" THEN <<2, raw.str>>
  ELSE <<3, Len(raw.emotes)>> \o EncodeEmotes(raw.emotes)

NoValue == [ok |-> FALSE]

RECURSIVE DecodeEmotes(_, _)
DecodeEmotes(bytes, n) ==
  IF n = 0 THEN (IF bytes = <<>> THEN [ok |-> TRUE, v |-> <<>>] ELSE NoValue)
  ELSE IF Len(bytes) < 2 THEN NoValue
  ELSE IF Len(bytes) < 2 + bytes[2] THEN NoValue
  ELSE LET e == RawEmote(bytes[1], SubSeq(bytes, 3, 2 + bytes[2]))
           rest == DecodeEmotes(SubSeq(bytes, 3 + bytes[2], Len(bytes)), n - 1)
       IN IF rest.ok THEN [ok |-> TRUE, v |-> <<e>> \o rest.v] ELSE NoValue

\* rkyv::from_bytes::<RawCacheValue>(&val[..]) with check_bytes validation
FromBytes(bytes) ==
  IF Len(bytes) < 2 THEN NoValue
  ELSE IF bytes[1] = 1 /\ Len(bytes) = 2 THEN [ok |-> TRUE, v |-> RawClientId(bytes[2])]
  ELSE IF bytes[1] = 2 /\ Len(bytes) = 2 THEN [ok |-> TRUE, v |-> RawUserId(bytes[2])]
  ELSE IF bytes[1] = 3
       THEN LET es == DecodeEmotes(SubSeq(bytes, 3, Len(bytes)), bytes[2])
            IN IF es.ok THEN [ok |-> TRUE, v |-> RawEmoteSet(es.v)] ELSE NoValue
  ELSE NoValue

(***************************************************************************)
(* The hot tier: lru::LruCache, most recently used entry first             *)
(***************************************************************************)
LruIndex(l, k) == CHOOSE i \in 1..Len(l) : l[i].key = k

\* LruCache::contains: no recency update
LruContains(l, k) == \E i \in 1..Len(l) : l[i].key = k

\* the value LruCache::get returns (k resident)
LruValue(l, k) == l[LruIndex(l, k)].val

Without(l, i) == SubSeq(l, 1, i - 1) \o SubSeq(l, i + 1, Len(l))

\* faulty variant: a lookup that leaves the order alone, as peek does
LruGetNoPromote(l, k) == l

\* the table after LruCache::get(k): k becomes the most recently used
LruGet(l, k) ==
  IF LruContains(l, k)
  THEN <<l[LruIndex(l, k)]>> \o Without(l, LruIndex(l, k))
  ELSE l

\* the table after LruCache::put(k, v): replace in place or evict the least
\* recently used entry when full; k becomes the most recently used
\* faulty variant: a put never evicts and never replaces, it only adds
LruPutAdds(l, k, v) == <<[key |-> k, val |-> v]>> \o l
LruPut(l, k, v) ==
  IF LruContains(l, k)
  THEN <<[key |-> k, val |-> v]>> \o Without(l, LruIndex(l, k))
  ELSE IF Len(l) >= LruCapacity
       THEN <<[key |-> k, val |-> v]>> \o SubSeq(l, 1, LruCapacity - 1)
       ELSE <<[key |-> k, val |-> v]>> \o l

(***************************************************************************)
(* State                                                                   *)
(***************************************************************************)
VARIABLES
  lru,      \* Cache.lru: sequence of [key, val], most recently used first
  disk,     \* the cacache store under disk_cache_dir: stored key -> bytes
  pc,       \* where the call of Cache::cache in progress stands
  call,     \* the call in progress or just finished: [api, key, use_disk]
  pending,  \* the RawCacheValue the callback returned, before write_cache
  ret,      \* what the last call returned: [kind, val]
  invoked,  \* how often the call invoked its callback
  io,       \* how the call's read step and its disk write ended
  recent,   \* history: the keys the calls used last (returned from the
            \* table or put in it), latest first, LruCapacity at most
  catalog,  \* get_global_emotes: resp.data, the emotes to download
  spawned,  \* number of catalog items whose task has been spawned
  running,  \* indices of the spawned tasks that have not finished
  ready,    \* finished tasks still in the buffer, in order of completion:
            \* [idx, some, raw], some being whether the JoinHandle's output
            \* matches Ok(Ok(_)), raw the RawEmote if it does
  set1,     \* the fold's accumulator s.1: RawEmotes collected so far
  failed,   \* indices of the tasks that finished without an emote
  completed, \* history: names of the emotes of the tasks that finished
            \* with an emote, in order of completion
  ui,       \* where Tui::run stands: "off", "recv" (at the select!), "tail"
            \* (an event handled, before the quit and redraw checks), "left"
  textarea_focused, \* State.textarea_focused
  quit,     \* State.quit
  request_redraw,   \* State.request_redraw
  textarea, \* State.textarea: the text typed, a sequence of characters
  active_tab,       \* State.active_tab: the channel's name
  tabs,     \* State.tabs: channel -> Chat, [lines, bg_darken, capacity]
  event_rx, \* the channel of ev::In from the handler and the chat task to
            \* Tui::run
  handler_rx,       \* the channel of ev::Send from State to EventHandler::run
  message_rx,       \* the channel of Message from EventHandler::run to the
            \* chat task
  chat_task, \* the task spawned in EventHandler::run: "off", "up", "dead"
  wire,     \* history: the messages client.privmsg has sent, in order
  emitted,  \* history: the messages key_event has sent to handler_tx
  pushed    \* history: channel -> the messages pushed to its Chat, in order

cacheVars == <<lru, disk, pc, call, pending, ret, invoked, io, recent>>
pipeVars == <<catalog, spawned, running, ready, set1, failed, completed>>
uiVars == <<ui, textarea_focused, quit, request_redraw, textarea, active_tab,
            tabs, event_rx, handler_rx, message_rx, chat_task, wire, emitted,
            pushed>>
vars == <<lru, disk, pc, call, pending, ret, invoked, io, recent,
          catalog, spawned, running, ready, set1, failed, completed,
          ui, textarea_focused, quit, request_redraw, textarea, active_tab,
          tabs, event_rx, handler_rx, message_rx, chat_task, wire, emitted,
          pushed>>

\* no terminal UI is running
UiOff ==
  /\ ui = "off"
  /\ textarea_focused = FALSE
  /\ quit = FALSE
  /\ request_redraw = FALSE
  /\ textarea = <<>>
  /\ active_tab = ""
  /\ tabs = <<>>
  /\ event_rx = <<>>
  /\ handler_rx = <<>>
  /\ message_rx = <<>>
  /\ chat_task = "off"
  /\ wire = <<>>
  /\ emitted = <<>>
  /\ pushed = <<>>

NoRaw == [tag |-> "None", str |-> 0, emotes |-> <<>>]
NoRet == [kind |-> "None", val |-> NoRaw]
RetOk(val) == [kind |-> "Ok", val |-> val]
RetErr == [kind |-> "Err", val |-> NoRaw]
RetPanic == [kind |-> "Panic", val |-> NoRaw]
NoIo == [read |-> "none", write |-> "none"]

(***************************************************************************)
(* Cache::read_cache and Cache::write_cache                                *)
(***************************************************************************)
\* cacache::read(&dir, key): Err when the key is absent or the read fails
ReadDiskCacheBytes(d, key, rd) ==
  IF key \in DOMAIN d /\ rd = "ok" THEN [ok |-> TRUE, v |-> d[key]] ELSE NoValue

\* Cache::read_cache(use_disk_cache, key) on table l and store d, the disk
\* read ending as rd: the table afterwards and what is returned
\* faulty variant: the table is never consulted
ReadCacheNoHot(l, d, use_disk_cache, key, rd) ==
  [lru |-> l, res |-> "None", val |-> NoRaw]
\* faulty variant: the store is never read, a miss in the table is a miss
ReadCacheSkipsDisk(l, d, use_disk_cache, key, rd) ==
  IF LruContains(l, key)
  THEN [lru |-> LruGet(l, key), res |-> "Some", val |-> LruValue(l, key)]
  ELSE [lru |-> l, res |-> "None", val |-> NoRaw]
\* faulty variant: the disk read is unwrapped, a failed read of a stored
\* key panics
ReadCacheUnwrapRead(l, d, use_disk_cache, key, rd) ==
  IF LruContains(l, key)
  THEN [lru |-> LruGet(l, key), res |-> "Some", val |-> LruValue(l, key)]
  ELSE IF use_disk_cache /\ key \in DOMAIN d /\ rd # "ok"
       THEN [lru |-> l, res |-> "Panic", val |-> NoRaw]
       ELSE LET bytes == ReadDiskCacheBytes(d, key, rd)
                val == IF use_disk_cache /\ bytes.ok THEN FromBytes(bytes.v)
                       ELSE NoValue
            IN IF val.ok
               THEN IF FromPanics(val.v)
                    THEN [lru |-> l, res |-> "Panic", val |-> NoRaw]
                    ELSE [lru |-> LruPut(l, key, ValueFrom(val.v)),
                          res |-> "Some", val |-> ValueFrom(val.v)]
               ELSE [lru |-> l, res |-> "None", val |-> NoRaw]
\* faulty variant: the decode is unwrapped, bytes that do not decode panic
ReadCacheUnwrapDecode(l, d, use_disk_cache, key, rd) ==
  IF LruContains(l, key)
  THEN [lru |-> LruGet(l, key), res |-> "Some", val |-> LruValue(l, key)]
  ELSE LET bytes == ReadDiskCacheBytes(d, key, rd)
       IN IF use_disk_cache /\ bytes.ok
          THEN IF FromBytes(bytes.v).ok /\ ~FromPanics(FromBytes(bytes.v).v)
               THEN [lru |-> LruPut(l, key, ValueFrom(FromBytes(bytes.v).v)),
                     res |-> "Some", val |-> ValueFrom(FromBytes(bytes.v).v)]
               ELSE [lru |-> l, res |-> "Panic", val |-> NoRaw]
          ELSE [lru |-> l, res |-> "None", val |-> NoRaw]
ReadCache(l, d, use_disk_cache, key, rd) ==
  IF LruContains(l, key)
  THEN [lru |-> LruGet(l, key), res |-> "Some", val |-> LruValue(l, key)]
  ELSE LET bytes == ReadDiskCacheBytes(d, key, rd)
           val == IF use_disk_cache /\ bytes.ok THEN FromBytes(bytes.v) ELSE NoValue
       IN IF val.ok
          THEN IF FromPanics(val.v)
               THEN [lru |-> l, res |-> "Panic", val |-> NoRaw]
               ELSE [lru |-> LruPut(l, key, ValueFrom(val.v)), res |-> "Some",
                     val |-> ValueFrom(val.v)]
          ELSE [lru |-> l, res |-> "None", val |-> NoRaw]

\* Cache::write_disk_cache(key, val): the store afterwards (the write
\* ending as wr)
WriteDiskCache(d, key, val, wr) ==
  IF wr = "ok"
  THEN [k \in DOMAIN d \cup {key} |-> IF k = key THEN ToBytes(val) ELSE d[k]]
  ELSE d

\* Cache::write_cache(use_disk_cache, key, val), the disk write ending as
\* wr: table and store afterwards and what is returned
\* faulty variant: the value is never written to the store
WriteCacheNoDisk(l, d, use_disk_cache, key, val, wr) ==
  [lru |-> LruPut(l, key, ValueFrom(val)), disk |-> d,
   res |-> "Ok", val |-> ValueFrom(val)]
\* faulty variant: the value is returned but not put in the table
WriteCacheNoPut(l, d, use_disk_cache, key, val, wr) ==
  [lru |-> l, disk |-> d, res |-> "Ok", val |-> ValueFrom(val)]
\* faulty variant: the value is written to the store whatever
\* use_disk_cache says
WriteCacheAlwaysDisk(l, d, use_disk_cache, key, val, wr) ==
  IF wr # "ok"
  THEN [lru |-> l, disk |-> d, res |-> "Err", val |-> NoRaw]
  ELSE IF FromPanics(val)
       THEN [lru |-> l, disk |-> WriteDiskCache(d, key, val, wr),
             res |-> "Panic", val |-> NoRaw]
       ELSE [lru |-> LruPut(l, key, ValueFrom(val)),
             disk |-> WriteDiskCache(d, key, val, wr),
             res |-> "Ok", val |-> ValueFrom(val)]
\* faulty variant: a failed disk write is passed over, the value is put in
\* the table all the same
WriteCacheBestEffort(l, d, use_disk_cache, key, val, wr) ==
  LET d2 == IF use_disk_cache THEN WriteDiskCache(d, key, val, wr) ELSE d
  IN IF FromPanics(val)
     THEN [lru |-> l, disk |-> d2, res |-> "Panic", val |-> NoRaw]
     ELSE [lru |-> LruPut(l, key, ValueFrom(val)), disk |-> d2,
           res |-> "Ok", val |-> ValueFrom(val)]
WriteCache(l, d, use_disk_cache, key, val, wr) ==
  IF use_disk_cache /\ wr # "ok"
  THEN [lru |-> l, disk |-> d, res |-> "Err", val |-> NoRaw]
  ELSE LET d2 == IF use_disk_cache THEN WriteDiskCache(d, key, val, wr) ELSE d
       IN IF FromPanics(val)
          THEN [lru |-> l, disk |-> d2, res |-> "Panic", val |-> NoRaw]
          ELSE [lru |-> LruPut(l, key, ValueFrom(val)), disk |-> d2,
                res |-> "Ok", val |-> ValueFrom(val)]

(***************************************************************************)
(* Cache::cache: entry and the read_cache step                             *)
(***************************************************************************)
IoOutcomes == {"ok", "ioerr"}

NoCall == [api |-> "none", key |-> <<>>, use_disk |-> FALSE]

PipeIdle ==
  /\ catalog = <<>>
  /\ spawned = 0
  /\ running = {}
  /\ ready = <<>>
  /\ set1 = <<>>
  /\ failed = {}
  /\ completed = <<>>

PipeReset ==
  /\ catalog' = <<>>
  /\ spawned' = 0
  /\ running' = {}
  /\ ready' = <<>>
  /\ set1' = <<>>
  /\ failed' = {}
  /\ completed' = <<>>

\* the history of used keys after a call has used key k
Touch(h, k) ==
  LET rest == SelectSeq(h, LAMBDA x : x # k)
  IN <<k>> \o SubSeq(rest, 1,
                      IF Len(rest) < LruCapacity THEN Len(rest)
                      ELSE LruCapacity - 1)

\* how read_cache ended, for the record: a hit in the table ("hot"), no
\* disk read asked for ("nodisk"), the key not in the store ("absent"), a
\* failed read ("ioerr"), bytes that do not decode ("corrupt") or bytes
\* that decode ("cold")
ReadOutcome(l, d, use_disk_cache, key, rd) ==
  IF LruContains(l, key) THEN "hot"
  ELSE IF ~use_disk_cache THEN "nodisk"
  ELSE IF key \notin DOMAIN d THEN "absent"
  ELSE IF rd # "ok" THEN "ioerr"
  ELSE IF FromBytes(d[key]).ok THEN "cold" ELSE "corrupt"

\* Cache::cache(descriptor, callback) up to the callback: read_cache, and
\* return on Ok(Some(v))
\* faulty variant: a call may enter while another is in progress
EnterReentrant(api, key, use_disk_cache, rd) ==
  LET r == ReadCache(lru, disk, use_disk_cache, key, rd)
  IN /\ call' = [api |-> api, key |-> key, use_disk |-> use_disk_cache]
     /\ io' = [read |-> ReadOutcome(lru, disk, use_disk_cache, key, rd),
               write |-> "none"]
     /\ lru' = r.lru
     /\ pc' = IF r.res = "Some" THEN "done"
              ELSE IF r.res = "Panic" THEN "crashed" ELSE "producer"
     /\ ret' = IF r.res = "Some" THEN RetOk(r.val)
               ELSE IF r.res = "Panic" THEN RetPanic ELSE NoRet
     /\ invoked' = 0
     /\ pending' = NoRaw
     /\ recent' = IF r.res = "Some" THEN Touch(recent, key) ELSE recent
     /\ PipeReset
     /\ UNCHANGED uiVars
     /\ UNCHANGED disk
Enter(api, key, use_disk_cache, rd) ==
  LET r == ReadCache(lru, disk, use_disk_cache, key, rd)
  IN /\ pc \in {"idle", "done"}
     /\ call' = [api |-> api, key |-> key, use_disk |-> use_disk_cache]
     /\ io' = [read |-> ReadOutcome(lru, disk, use_disk_cache, key, rd),
               write |-> "none"]
     /\ lru' = r.lru
     /\ pc' = IF r.res = "Some" THEN "done"
              ELSE IF r.res = "Panic" THEN "crashed" ELSE "producer"
     /\ ret' = IF r.res = "Some" THEN RetOk(r.val)
               ELSE IF r.res = "Panic" THEN RetPanic ELSE NoRet
     /\ invoked' = 0
     /\ pending' = NoRaw
     /\ recent' = IF r.res = "Some" THEN Touch(recent, key) ELSE recent
     /\ PipeReset
     /\ UNCHANGED uiVars
     /\ UNCHANGED disk

\* Cache::get_client_id(token)
GetClientId ==
  \E token \in Tokens, rd \in IoOutcomes :
    Enter("get_client_id", ClientIdKey(token), TRUE, rd)

\* Cache::get_user_id(client_id, username, token)
GetUserId ==
  \E username \in Usernames, rd \in IoOutcomes :
    Enter("get_user_id", UserIdKey(username), TRUE, rd)

\* Cache::get_global_emotes(client_id, token)
GetGlobalEmotes ==
  \E rd \in IoOutcomes : Enter("get_global_emotes", EmotesKey, TRUE, rd)

\* Cache::cache called with any descriptor and a callback that answers a
\* ClientId or fails
CacheCall ==
  \E use_disk_cache \in BOOLEAN, rd \in IoOutcomes :
    Enter("cache", PlainKey, use_disk_cache, rd)

(***************************************************************************)
(* The callbacks                                                           *)
(***************************************************************************)
\* what a callback's request may be answered with
CallbackValues(api) ==
  IF api = "get_user_id" THEN { RawUserId(u) : u \in UserIds }
  ELSE IF api = "get_client_id" THEN { RawClientId(AppClientId) }
  ELSE { RawClientId(c) : c \in ClientIds }

\* callback(self), value.await is Ok(v)
CallbackOk ==
  /\ pc = "producer"
  /\ call.api \in {"cache", "get_client_id", "get_user_id"}
  /\ \E v \in CallbackValues(call.api) : pending' = v
  /\ invoked' = invoked + 1
  /\ pc' = "write"
  /\ UNCHANGED <<lru, disk, call, ret, io, recent>>
  /\ UNCHANGED pipeVars
  /\ UNCHANGED uiVars

\* faulty variant: a failed callback leaves a default value in the table
CallbackErrCachesDefault ==
  /\ pc = "producer"
  /\ invoked' = invoked + 1
  /\ ret' = RetErr
  /\ pc' = "done"
  /\ lru' = LruPut(lru, call.key, ValueFrom(RawClientId(0)))
  /\ UNCHANGED <<disk, call, pending, io, recent>>
  /\ UNCHANGED pipeVars
  /\ UNCHANGED uiVars

\* callback(self), value.await? is Err: the request or its JSON failed
CallbackErr ==
  /\ pc = "producer"
  /\ invoked' = invoked + 1
  /\ ret' = RetErr
  /\ pc' = "done"
  /\ UNCHANGED <<lru, disk, call, pending, io, recent>>
  /\ UNCHANGED pipeVars
  /\ UNCHANGED uiVars

\* get_user_id: resp.data.first().unwrap() on an empty data list
UserLookupEmpty ==
  /\ pc = "producer"
  /\ call.api = "get_user_id"
  /\ invoked' = invoked + 1
  /\ ret' = RetPanic
  /\ pc' = "crashed"
  /\ UNCHANGED <<lru, disk, call, pending, io, recent>>
  /\ UNCHANGED pipeVars
  /\ UNCHANGED uiVars

(***************************************************************************)
(* get_global_emotes: the download pipeline                                *)
(***************************************************************************)
\* resp.data of the global emote catalog: the names of its emotes
RECURSIVE SeqsUpTo(_, _)
SeqsUpTo(S, n) ==
  IF n = 0 THEN { <<>> }
  ELSE LET shorter == SeqsUpTo(S, n - 1)
       IN shorter \cup { Append(q, x) : q \in { r \in shorter : Len(r) = n - 1 }, x \in S }

Catalogs == SeqsUpTo(EmoteNames, MaxCatalog)

\* the catalog request answered: the stream over resp.data is set up
CatalogFetched ==
  /\ pc = "producer"
  /\ call.api = "get_global_emotes"
  /\ \E c \in Catalogs : catalog' = c
  /\ invoked' = invoked + 1
  /\ pc' = "pipeline"
  /\ UNCHANGED <<lru, disk, call, pending, ret, io, recent>>
  /\ UNCHANGED <<spawned, running, ready, set1, failed, completed>>
  /\ UNCHANGED uiVars

Min(a, b) == IF a < b THEN a ELSE b

\* how many tasks a poll of buffer_unordered(5) spawns: it pulls the next
\* future from the stream while fewer than 5 are in its queue
\* faulty variant: every remaining item is spawned at once
FetchWindowUnbounded(occupied, remaining) == remaining
FetchWindow(occupied, remaining) ==
  IF occupied >= FetchWidth THEN 0 ELSE Min(FetchWidth - occupied, remaining)

\* BufferUnordered::poll_next, first half: the map closure runs
\* tokio::spawn for each future pulled
FillBuffer ==
  LET n == FetchWindow(Cardinality(running) + Len(ready), Len(catalog) - spawned)
  IN /\ pc = "pipeline"
     /\ n > 0
     /\ running' = running \cup ((spawned + 1)..(spawned + n))
     /\ spawned' = spawned + n
     /\ UNCHANGED cacheVars
     /\ UNCHANGED uiVars
     /\ UNCHANGED <<catalog, ready, set1, failed, completed>>

\* what a task's download comes to: no "url_1x" in the emote's images, a
\* failed request, or the bytes of the response
Downloads(name) ==
  { [kind |-> "nourl", bytes |-> <<>>], [kind |-> "neterr", bytes |-> <<>>],
    [kind |-> "bytes", bytes |-> PngBytes(name)],
    [kind |-> "bytes", bytes |-> WebPBytes(name)],
    [kind |-> "bytes", bytes |-> GarbageBytes] }

NoEmote == RawEmote(0, <<>>)

\* Emote::transcode_from_bytes(name, bytes), RawEmote::from_image's
\* write_to ending as enc: a panic on bytes that are no image, else the
\* Result
TranscodeFromBytes(name, bytes, enc) ==
  IF ~IsImage(bytes) THEN [res |-> "panic", raw |-> NoEmote]
  ELSE IF enc # "ok" THEN [res |-> "err", raw |-> NoEmote]
  ELSE [res |-> "ok", raw |-> RawEmote(name, WebPBytes(bytes[2]))]

\* the spawned task's body, as its JoinHandle reports it: "panic" is
\* Err(JoinError), "err" is Ok(Err(_)), "ok" is Ok(Ok(_))
FetchTask(name, dl, enc) ==
  IF dl.kind # "bytes" THEN [res |-> "panic", raw |-> NoEmote]
  ELSE TranscodeFromBytes(name, dl.bytes, enc)

\* a spawned task runs to its end on the runtime
TaskFinish ==
  /\ pc = "pipeline"
  /\ \E i \in running :
       \E dl \in Downloads(catalog[i]), enc \in {"ok", "err"} :
         LET r == FetchTask(catalog[i], dl, enc)
         IN /\ ready' = Append(ready, [idx |-> i, some |-> r.res = "ok",
                                        raw |-> r.raw])
            /\ running' = running \ {i}
            /\ failed' = IF r.res = "ok" THEN failed ELSE failed \cup {i}
            /\ completed' = IF r.res = "ok" THEN Append(completed, catalog[i])
                            ELSE completed
  /\ UNCHANGED cacheVars
  /\ UNCHANGED uiVars
  /\ UNCHANGED <<catalog, spawned, set1>>

\* the fold's closure on one result: if let Ok(Ok((emote, image)))
\* faulty variant: every result is pushed, failed or not
FoldStepAll(acc, r) == Append(acc, r.raw)
\* faulty variant: a result is put in front of those collected before it
FoldStepPrepend(acc, r) == IF r.some THEN <<r.raw>> \o acc ELSE acc
FoldStep(acc, r) == IF r.some THEN Append(acc, r.raw) ELSE acc

\* BufferUnordered::poll_next, second half: once the queue is filled, the
\* earliest finished task is handed to the fold
Collect ==
  /\ pc = "pipeline"
  /\ ready # <<>>
  /\ FetchWindow(Cardinality(running) + Len(ready), Len(catalog) - spawned) = 0
  /\ set1' = FoldStep(set1, Head(ready))
  /\ ready' = Tail(ready)
  /\ UNCHANGED cacheVars
  /\ UNCHANGED uiVars
  /\ UNCHANGED <<catalog, spawned, running, failed, completed>>

\* stream and queue exhausted: Ok(RawCacheValue::EmoteSet(set.1))
PipelineDone ==
  /\ pc = "pipeline"
  /\ spawned = Len(catalog)
  /\ running = {}
  /\ ready = <<>>
  /\ pending' = RawEmoteSet(set1)
  /\ pc' = "write"
  /\ PipeReset
  /\ UNCHANGED uiVars
  /\ UNCHANGED <<lru, disk, call, ret, invoked, io, recent>>

(***************************************************************************)
(* Cache::cache after the callback: write_cache                            *)
(***************************************************************************)
WriteBack ==
  /\ pc = "write"
  /\ \E wr \in IoOutcomes :
       LET w == WriteCache(lru, disk, call.use_disk, call.key, pending, wr)
       IN /\ lru' = w.lru
          /\ disk' = w.disk
          /\ ret' = IF w.res = "Ok" THEN RetOk(w.val)
                    ELSE IF w.res = "Err" THEN RetErr ELSE RetPanic
          /\ pc' = IF w.res = "Panic" THEN "crashed" ELSE "done"
          /\ io' = [io EXCEPT !.write = IF call.use_disk THEN wr ELSE "none"]
          /\ recent' = IF w.res = "Ok" THEN Touch(recent, call.key) ELSE recent
  /\ UNCHANGED <<call, pending, invoked>>
  /\ UNCHANGED pipeVars
  /\ UNCHANGED uiVars

(***************************************************************************)
(* The process                                                             *)
(***************************************************************************)
EmptyDisk == [k \in {} |-> <<>>]

\* bytes that are no RawCacheValue
CorruptBytes == <<9>>

\* an EmoteSet whose one emote holds bytes that are no WebP image
BadImageSet == RawEmoteSet(<<RawEmote(31, GarbageBytes)>>)

\* what the cache directory may hold when the process starts: nothing, or
\* one entry left damaged or written by another version of the format
InitialDisks ==
  { EmptyDisk }
    \cup { [k \in {key} |-> CorruptBytes] : key \in {PlainKey, EmotesKey} }
    \cup { [k \in {EmotesKey} |-> ToBytes(BadImageSet)] }

\* Cache::new(disk_cache_dir) in a process started over the same directory
Restart ==
  /\ pc \in {"done", "crashed"}
  /\ lru' = <<>>
  /\ pc' = "idle"
  /\ call' = NoCall
  /\ pending' = NoRaw
  /\ ret' = NoRet
  /\ invoked' = 0
  /\ io' = NoIo
  /\ recent' = <<>>
  /\ PipeReset
  /\ UNCHANGED uiVars
  /\ UNCHANGED disk

Init ==
  /\ lru = <<>>
  /\ disk \in InitialDisks
  /\ pc = "idle"
  /\ call = NoCall
  /\ pending = NoRaw
  /\ ret = NoRet
  /\ invoked = 0
  /\ io = NoIo
  /\ recent = <<>>
  /\ PipeIdle
  /\ UiOff

Next ==
  \/ GetClientId
  \/ GetUserId
  \/ GetGlobalEmotes
  \/ CacheCall
  \/ CallbackOk
  \/ CallbackErr
  \/ UserLookupEmpty
  \/ CatalogFetched
  \/ FillBuffer
  \/ TaskFinish
  \/ Collect
  \/ PipelineDone
  \/ WriteBack
  \/ Restart

Spec == Init /\ [][Next]_vars

(***************************************************************************)
(* The pipeline alone: get_global_emotes on a new Cache over an empty      *)
(* store, the catalog of PipeItems emotes just received                    *)
(***************************************************************************)
PipeCatalog == [i \in 1..PipeItems |-> 30 + i]

InitPipe ==
  /\ lru = <<>>
  /\ disk = EmptyDisk
  /\ pc = "pipeline"
  /\ call = [api |-> "get_global_emotes", key |-> EmotesKey, use_disk |-> TRUE]
  /\ pending = NoRaw
  /\ ret = NoRet
  /\ invoked = 1
  /\ io = [read |-> "absent", write |-> "none"]
  /\ recent = <<>>
  /\ catalog = PipeCatalog
  /\ spawned = 0
  /\ running = {}
  /\ ready = <<>>
  /\ set1 = <<>>
  /\ failed = {}
  /\ completed = <<>>
  /\ UiOff

NextPipe ==
  \/ FillBuffer
  \/ TaskFinish
  \/ Collect
  \/ PipelineDone
  \/ WriteBack

SpecPipe == InitPipe /\ [][NextPipe]_vars

\* the pipeline on a runtime that lets every spawned task run to its end
\* and polls the fold whenever it can make a step
SpecPipeFair ==
  /\ InitPipe
  /\ [][NextPipe]_vars
  /\ WF_vars(TaskFinish)
  /\ WF_vars(FillBuffer \/ Collect \/ PipelineDone)

(***************************************************************************)
(* The pipeline on any catalog of CatalogItems emotes over two names: the  *)
(* response is not checked for repeated names before the stream is set up  *)
(***************************************************************************)
CatalogNames == {31, 32}

RepeatingCatalogs ==
  { c \in SeqsUpTo(CatalogNames, CatalogItems) : Len(c) = CatalogItems }

InitCatalog ==
  /\ lru = <<>>
  /\ disk = EmptyDisk
  /\ pc = "pipeline"
  /\ call = [api |-> "get_global_emotes", key |-> EmotesKey, use_disk |-> TRUE]
  /\ pending = NoRaw
  /\ ret = NoRet
  /\ invoked = 1
  /\ io = [read |-> "absent", write |-> "none"]
  /\ recent = <<>>
  /\ catalog \in RepeatingCatalogs
  /\ spawned = 0
  /\ running = {}
  /\ ready = <<>>
  /\ set1 = <<>>
  /\ failed = {}
  /\ completed = <<>>
  /\ UiOff

SpecCatalog == InitCatalog /\ [][NextPipe]_vars

(***************************************************************************)
(* The wire form alone: Cache::cache with a callback that has returned any *)
(* RawCacheValue, its write-back, and the calls of later processes that    *)
(* read the stored bytes back                                              *)
(***************************************************************************)
\* RawEmotes: two names, data that is empty, no image, or a WebP image
CodecEmotes ==
  { RawEmote(n, d) : n \in {31, 32}, d \in { <<>>, GarbageBytes, WebPBytes(31) } }

\* RawCacheValue: ClientId, UserId, and EmoteSet of 0 to MaxEmotes emotes
PersistedValues ==
  { RawClientId(c) : c \in ClientIds } \cup { RawUserId(u) : u \in UserIds }
    \cup { RawEmoteSet(es) : es \in SeqsUpTo(CodecEmotes, MaxEmotes) }

InitCodec ==
  /\ lru = <<>>
  /\ disk = EmptyDisk
  /\ pc = "write"
  /\ call = [api |-> "cache", key |-> PlainKey, use_disk |-> TRUE]
  /\ pending \in PersistedValues
  /\ ret = NoRet
  /\ invoked = 1
  /\ io = [read |-> "absent", write |-> "none"]
  /\ recent = <<>>
  /\ PipeIdle
  /\ UiOff

NextCodec ==
  \/ WriteBack
  \/ Restart
  \/ CacheCall

SpecCodec == InitCodec /\ [][NextCodec]_vars

(***************************************************************************)
(* The terminal UI: State and Chat (tui.rs), the tasks of EventHandler     *)
(* (event.rs) and the channels between them                                *)
(***************************************************************************)
\* cfg.username
ConfigUser == <<"a">>

\* cfg.channels
ChannelLists == { <<>>, <<"c">> }

\* event::Message
Msg(channel, username, text) ==
  [channel |-> channel, username |-> username, msg |-> text]

NoMsg == Msg("", <<>>, <<>>)

\* ev::In
InKey(code) == [kind |-> "Key", code |-> code, message |-> NoMsg]
InMessage(m) == [kind |-> "Message", code |-> "", message |-> m]
InRedraw == [kind |-> "Redraw", code |-> "", message |-> NoMsg]

\* KeyCode of the key events: Char('q'), Char('i'), Esc, Enter, and
\* Backspace for every other key
CharCodes == {"q", "i"}
KeyCodes == CharCodes \cup {"Esc", "Enter", "Backspace"}

\* TextArea::input(key) on a one-line text
TextInput(text, code) ==
  IF code \in CharCodes THEN Append(text, code)
  ELSE IF code = "Backspace" /\ text # <<>>
       THEN SubSeq(text, 1, Len(text) - 1)
       ELSE text

\* Chat::new(): the deque has room for at least the capacity asked for
ChatNew(capacity) ==
  [lines |-> <<>>, bg_darken |-> FALSE, capacity |-> capacity]

Capacities == { LinesRequested, LinesRequested + 1 }

\* the Line push_message builds
LineOf(chat, message) ==
  [username |-> message.username, msg |-> message.msg,
   bg |-> IF IsSubstring(ConfigUser, message.msg) THEN "Red"
          ELSE IF chat.bg_darken THEN "Black" ELSE "Reset"]

\* faulty variant: a full deque loses its newest line, not its oldest
PushMessageDropsNewest(chat, message) ==
  [lines |-> IF Len(chat.lines) = chat.capacity
             THEN <<LineOf(chat, message)>> \o Tail(chat.lines)
             ELSE <<LineOf(chat, message)>> \o chat.lines,
   bg_darken |-> ~chat.bg_darken,
   capacity |-> chat.capacity]

\* Chat::push_message(mention_finder, message)
PushMessage(chat, message) ==
  [lines |-> IF Len(chat.lines) = chat.capacity
             THEN <<LineOf(chat, message)>>
                    \o SubSeq(chat.lines, 1, Len(chat.lines) - 1)
             ELSE <<LineOf(chat, message)>> \o chat.lines,
   bg_darken |-> ~chat.bg_darken,
   capacity |-> chat.capacity]

\* faulty variant: Esc quits whether the text area is focused or not
KeyEventEscQuits(focused, text, active, code) ==
  IF code = "Esc"
  THEN [focused |-> FALSE, quits |-> TRUE, text |-> text, send |-> <<>>]
  ELSE IF code = "q" /\ ~focused
  THEN [focused |-> focused, quits |-> TRUE, text |-> text, send |-> <<>>]
  ELSE IF code = "i" /\ ~focused
  THEN [focused |-> TRUE, quits |-> FALSE, text |-> text, send |-> <<>>]
  ELSE IF code = "Enter"
  THEN [focused |-> focused, quits |-> FALSE, text |-> text,
        send |-> IF focused THEN <<Msg(active, ConfigUser, text)>> ELSE <<>>]
  ELSE [focused |-> focused, quits |-> FALSE,
        text |-> IF focused THEN TextInput(text, code) ELSE text,
        send |-> <<>>]

\* State::key_event(key) but for its last line: the focus afterwards,
\* whether quit is set, the text afterwards and the message sent (none or
\* one)
KeyEvent(focused, text, active, code) ==
  IF code = "q"
  THEN IF ~focused
       THEN [focused |-> focused, quits |-> TRUE, text |-> text, send |-> <<>>]
       ELSE [focused |-> focused, quits |-> FALSE,
             text |-> TextInput(text, code), send |-> <<>>]
  ELSE IF code = "i"
  THEN IF ~focused
       THEN [focused |-> TRUE, quits |-> FALSE, text |-> text, send |-> <<>>]
       ELSE [focused |-> focused, quits |-> FALSE,
             text |-> TextInput(text, code), send |-> <<>>]
  ELSE IF code = "Esc"
  THEN IF focused
       THEN [focused |-> FALSE, quits |-> FALSE, text |-> text, send |-> <<>>]
       ELSE [focused |-> focused, quits |-> TRUE, text |-> text, send |-> <<>>]
  ELSE IF code = "Enter"
  THEN IF focused
       THEN [focused |-> focused, quits |-> FALSE, text |-> text,
             send |-> <<Msg(active, ConfigUser, text)>>]
       ELSE [focused |-> focused, quits |-> FALSE, text |-> text, send |-> <<>>]
  ELSE IF focused
       THEN [focused |-> focused, quits |-> FALSE,
             text |-> TextInput(text, code), send |-> <<>>]
       ELSE [focused |-> focused, quits |-> FALSE, text |-> text, send |-> <<>>]

\* tab.push_message for the tab of the message's channel, if there is one
PushToTab(t, m) ==
  IF m.channel \in DOMAIN t
  THEN [t EXCEPT ![m.channel] = PushMessage(@, m)]
  ELSE t

\* the history of pushes after the same
RecordPush(h, m) ==
  IF m.channel \in DOMAIN h
  THEN [h EXCEPT ![m.channel] = Append(@, m)]
  ELSE h

\* the events waiting in a channel that satisfy Test
Waiting(q, Test(_)) == Len(SelectSeq(q, Test))

IsTyping(e) == e.kind = "Key" /\ e.code \in CharCodes
IsEnter(e) == e.kind = "Key" /\ e.code = "Enter"
IsChatMessage(e) == e.kind = "Message"

RECURSIVE PushCount(_, _)
PushCount(h, chans) ==
  IF chans = {} THEN 0
  ELSE LET c == CHOOSE x \in chans : TRUE
       IN Len(h[c]) + PushCount(h, chans \ {c})

UiRunning == ui \in {"recv", "tail"}

\* EventHandler::crossterm_event: a key press or a resize of the terminal
\* is sent to Tui::run
CrosstermEvent ==
  /\ UiRunning
  /\ Len(event_rx) < MaxQueue
  /\ \E e \in { InKey(c) : c \in KeyCodes } \cup { InRedraw } :
       /\ IsTyping(e) => Len(textarea) + Waiting(event_rx, IsTyping) < MaxText
       /\ IsEnter(e) => Len(emitted) + Waiting(event_rx, IsEnter) < MaxSends
       /\ event_rx' = Append(event_rx, e)
  /\ UNCHANGED <<ui, textarea_focused, quit, request_redraw, textarea,
                 active_tab, tabs, handler_rx, message_rx, chat_task, wire,
                 emitted, pushed>>
  /\ UNCHANGED cacheVars
  /\ UNCHANGED pipeVars

\* the chat messages the server delivers: for a joined channel or not,
\* naming the user or not
Incoming ==
  { Msg(ch, <<"b">>, text) : ch \in {"c", "x"}, text \in { <<"h">>, <<"a">>, <<"k">> } }

\* EventHandler::tmi_event, client.recv() is a Privmsg: it is sent to
\* Tui::run
TmiPrivmsg ==
  /\ UiRunning
  /\ chat_task = "up"
  /\ Len(event_rx) < MaxQueue
  /\ PushCount(pushed, DOMAIN pushed) + Waiting(event_rx, IsChatMessage)
       < MaxPushes
  /\ \E m \in Incoming : event_rx' = Append(event_rx, InMessage(m))
  /\ UNCHANGED <<ui, textarea_focused, quit, request_redraw, textarea,
                 active_tab, tabs, handler_rx, message_rx, chat_task, wire,
                 emitted, pushed>>
  /\ UNCHANGED cacheVars
  /\ UNCHANGED pipeVars

\* EventHandler::tmi_event, client.recv() or a reply to it fails: the
\* task's loop unwraps the error and the task ends, message_rx with it
ChatTaskPanics ==
  /\ UiRunning
  /\ chat_task = "up"
  /\ chat_task' = "dead"
  /\ message_rx' = <<>>
  /\ UNCHANGED <<ui, textarea_focused, quit, request_redraw, textarea,
                 active_tab, tabs, event_rx, handler_rx, wire, emitted,
                 pushed>>
  /\ UNCHANGED cacheVars
  /\ UNCHANGED pipeVars

\* EventHandler::tmi_event, message_rx.recv() is Some(msg):
\* client.privmsg(..).send() succeeds, or fails and the task ends
TmiSend ==
  /\ UiRunning
  /\ chat_task = "up"
  /\ message_rx # <<>>
  /\ \E sent \in BOOLEAN :
       IF sent
       THEN /\ wire' = Append(wire, Head(message_rx))
            /\ message_rx' = Tail(message_rx)
            /\ chat_task' = chat_task
       ELSE /\ wire' = wire
            /\ message_rx' = <<>>
            /\ chat_task' = "dead"
  /\ UNCHANGED <<ui, textarea_focused, quit, request_redraw, textarea,
                 active_tab, tabs, event_rx, handler_rx, emitted, pushed>>
  /\ UNCHANGED cacheVars
  /\ UNCHANGED pipeVars

\* message_tx.send(message): the channel afterwards; the send fails when
\* the receiver is gone
MessageTxSend(q, task, message) ==
  IF task = "up" THEN Append(q, message) ELSE q

\* EventHandler::run, handler_rx.recv() is Some(ev::Send::Message(m)):
\* let _ = message_tx.send(m)
HandlerForward ==
  /\ UiRunning
  /\ handler_rx # <<>>
  /\ handler_rx' = Tail(handler_rx)
  /\ message_rx' = MessageTxSend(message_rx, chat_task, Head(handler_rx))
  /\ UNCHANGED <<ui, textarea_focused, quit, request_redraw, textarea,
                 active_tab, tabs, event_rx, chat_task, wire, emitted, pushed>>
  /\ UNCHANGED cacheVars
  /\ UNCHANGED pipeVars

\* Tui::run, event_rx.recv() is Some(e): the event is handled
TuiRecv ==
  /\ ui = "recv"
  /\ event_rx # <<>>
  /\ LET e == Head(event_rx)
         k == KeyEvent(textarea_focused, textarea, active_tab, e.code)
         sends == IF e.kind = "Key" THEN k.send ELSE <<>>
         pushes == IF e.kind = "Message" THEN <<e.message>> ELSE sends
     IN /\ event_rx' = Tail(event_rx)
        /\ textarea_focused' = IF e.kind = "Key" THEN k.focused
                                ELSE textarea_focused
        /\ quit' = (quit \/ (e.kind = "Key" /\ k.quits))
        /\ textarea' = IF e.kind = "Key" THEN k.text ELSE textarea
        /\ handler_rx' = handler_rx \o sends
        /\ emitted' = emitted \o sends
        /\ tabs' = IF pushes = <<>> THEN tabs ELSE PushToTab(tabs, pushes[1])
        /\ pushed' = IF pushes = <<>> THEN pushed
                      ELSE RecordPush(pushed, pushes[1])
        /\ request_redraw' =
             IF e.kind = "Message"
             THEN (request_redraw
                     \/ (e.message.channel \in DOMAIN tabs
                          /\ active_tab = e.message.channel))
             ELSE TRUE
  /\ ui' = "tail"
  /\ UNCHANGED <<active_tab, message_rx, chat_task, wire>>
  /\ UNCHANGED cacheVars
  /\ UNCHANGED pipeVars

\* Tui::run after the select!: break on quit, else draw if asked to
TuiTail ==
  /\ ui = "tail"
  /\ ui' = IF quit THEN "left" ELSE "recv"
  /\ request_redraw' = IF quit THEN request_redraw ELSE FALSE
  /\ UNCHANGED <<textarea_focused, quit, textarea, active_tab, tabs,
                 event_rx, handler_rx, message_rx, chat_task, wire, emitted,
                 pushed>>
  /\ UNCHANGED cacheVars
  /\ UNCHANGED pipeVars

\* the cache is built by EventHandler::new and not called
CacheIdle ==
  /\ lru = <<>>
  /\ disk = EmptyDisk
  /\ pc = "idle"
  /\ call = NoCall
  /\ pending = NoRaw
  /\ ret = NoRet
  /\ invoked = 0
  /\ io = NoIo
  /\ recent = <<>>
  /\ PipeIdle

\* Tui::run up to its loop with the handler connected and the chat task
\* spawned: State::new(false, ..), the first channel active, a Chat per
\* channel
UiStarted(channels, capacity) ==
  /\ ui = "recv"
  /\ textarea_focused = FALSE
  /\ quit = FALSE
  /\ request_redraw = FALSE
  /\ textarea = <<>>
  /\ active_tab = IF channels = <<>> THEN "" ELSE channels[1]
  /\ tabs = [c \in { channels[i] : i \in 1..Len(channels) } |->
               ChatNew(capacity)]
  /\ event_rx = <<>>
  /\ handler_rx = <<>>
  /\ message_rx = <<>>
  /\ chat_task = "up"
  /\ wire = <<>>
  /\ emitted = <<>>
  /\ pushed = [c \in { channels[i] : i \in 1..Len(channels) } |-> <<>>]

\* the keyboard alone: keys typed and handled by Tui::run, the messages
\* sent with Enter left waiting in handler_rx
NextKeys ==
  \/ CrosstermEvent
  \/ TuiRecv
  \/ TuiTail

\* the keyboard side: keys typed, messages sent out
InitUi ==
  /\ CacheIdle
  /\ \E channels \in ChannelLists : UiStarted(channels, LinesRequested)

NextUi ==
  \/ CrosstermEvent
  \/ TuiRecv
  \/ TuiTail
  \/ HandlerForward
  \/ TmiSend
  \/ ChatTaskPanics

SpecUi == InitUi /\ [][NextUi]_vars

SpecKeys == InitUi /\ [][NextKeys]_vars

\* the chat side: messages received for the joined channel and others
InitChat ==
  /\ CacheIdle
  /\ \E capacity \in Capacities : UiStarted(<<"c">>, capacity)

NextChat ==
  \/ TmiPrivmsg
  \/ TuiRecv
  \/ TuiTail

SpecChat == InitChat /\ [][NextChat]_vars

(***************************************************************************)
(* Properties                                                              *)
(***************************************************************************)
Key == call.key

HotMaps(k, val) == LruContains(lru, k) /\ LruValue(lru, k) = val

\* a step that enters Cache::cache
EnterStep == pc \in {"idle", "done"} /\ pc' # "idle" /\ call'.api # "none"

\* C1: a call with use_disk_cache = false for a key that is not in the
\* table invokes the callback exactly once (never before the read step is
\* over, never twice); when the callback answers Ok(v) the call returns
\* the Value made from v and the table maps the key to that Value.
C1_MissWithoutDisk ==
  io.read = "nodisk" =>
    /\ pc = "producer" => invoked = 0
    /\ pc \in {"write", "done"} => invoked = 1
    /\ (pc = "done" /\ pending # NoRaw) =>
         /\ ret = RetOk(ValueFrom(pending))
         /\ HotMaps(Key, ValueFrom(pending))

C1_Witness ==
  /\ pc = "done"
  /\ io.read = "nodisk"
  /\ invoked = 1
  /\ ret.kind = "Ok"
  /\ HotMaps(Key, ValueFrom(pending))

\* C2: a call for a key that is in the table returns the resident value at
\* once, whatever use_disk_cache is: the callback is not invoked, the key
\* stays resident with the same value and the store is left alone; so a
\* call for the key of the call that has just returned Ok returns the
\* same value again without invoking the callback.
C2_HotHit ==
  [][ /\ (EnterStep /\ LruContains(lru, call'.key)) =>
           /\ pc' = "done"
           /\ invoked' = 0
           /\ ret' = RetOk(LruValue(lru, call'.key))
           /\ LruContains(lru', call'.key)
           /\ LruValue(lru', call'.key) = LruValue(lru, call'.key)
           /\ disk' = disk
      /\ (EnterStep /\ pc = "done" /\ ret.kind = "Ok" /\ call'.key = call.key) =>
           /\ pc' = "done"
           /\ invoked' = 0
           /\ ret' = ret
    ]_vars

C2_Witness ==
  /\ pc = "done"
  /\ io.read = "hot"
  /\ call.use_disk
  /\ invoked = 0
  /\ ret.kind = "Ok"

\* C3: a call with use_disk_cache = true for a key in neither tier invokes
\* the callback once and, its write done, leaves the encoding of the
\* callback's answer in the store, bytes that decode to that answer and
\* that From accepts; a call for a key that is not in the table and whose
\* stored bytes decode so returns the Value made from them, puts it in the
\* table and does not invoke the callback.
C3_DiskMissThenHit ==
  /\ (pc = "done" /\ io.read = "absent" /\ io.write = "ok") =>
       /\ invoked = 1
       /\ Key \in DOMAIN disk
       /\ disk[Key] = ToBytes(pending)
       /\ FromBytes(disk[Key]) = [ok |-> TRUE, v |-> pending]
       /\ ~FromPanics(pending)
  /\ (io.read = "cold" /\ ~FromPanics(FromBytes(disk[Key]).v)) =>
       /\ pc = "done"
       /\ invoked = 0
       /\ ret = RetOk(ValueFrom(FromBytes(disk[Key]).v))
       /\ HotMaps(Key, ret.val)

\* the second call of the scenario: the table was empty when it was entered
C3_Witness ==
  /\ pc = "done"
  /\ io.read = "cold"
  /\ invoked = 0
  /\ ret.kind = "Ok"
  /\ Len(lru) = 1
  /\ HotMaps(Key, ret.val)

\* C4: stored bytes that do not decode are a miss: the call goes on to the
\* callback, which it invokes exactly once, no error or panic comes from
\* the read, and once the callback has answered and the write is done the
\* store holds the valid encoding of the answer and the call returns Ok.
C4_CorruptIsSoftMiss ==
  io.read = "corrupt" =>
    /\ pc \in {"producer", "pipeline", "write", "done"}
    /\ pc \in {"write", "done"} => invoked = 1
    /\ ret.kind = "Err" => (pending = NoRaw \/ io.write = "ioerr")
    /\ (pc = "done" /\ pending # NoRaw /\ io.write = "ok") =>
         /\ ret = RetOk(ValueFrom(pending))
         /\ disk[Key] = ToBytes(pending)
         /\ FromBytes(disk[Key]) = [ok |-> TRUE, v |-> pending]

C4_Witness ==
  /\ pc = "done"
  /\ io.read = "corrupt"
  /\ invoked = 1
  /\ ret.kind = "Ok"
  /\ disk[Key] = ToBytes(pending)

\* C5: a call whose callback fails returns that error and changes neither
\* tier: neither of its two steps, the read step that ends in a miss and
\* the step in which the callback's Err comes back, changes the table
\* (contents or order of recency) or the store.
C5_ProducerFailure ==
  [][ /\ (EnterStep /\ pc' = "producer") => (lru' = lru /\ disk' = disk)
      /\ (pc = "producer" /\ pc' = "done") =>
           (ret' = RetErr /\ lru' = lru /\ disk' = disk)
      /\ (pc \in {"producer", "pipeline"} /\ ret'.kind = "Err") =>
           (pc' = "done" /\ lru' = lru /\ disk' = disk)
    ]_vars

C5_Witness ==
  /\ pc = "done"
  /\ ret = RetErr
  /\ invoked = 1
  /\ io.write = "none"
  /\ lru # <<>>
  /\ DOMAIN disk # {}

\* C6 (as claimed): a failed disk write does not abort the call: the value
\* is still put in the table and the call returns it.
C6_WriteFailureTolerated ==
  (pc = "done" /\ io.write = "ioerr") =>
    /\ ret = RetOk(ValueFrom(pending))
    /\ HotMaps(Key, ValueFrom(pending))

\* C7 (as claimed): stored bytes that decode to an EmoteSet holding an
\* emote whose bytes are no image are a miss: the call does not crash and
\* goes on to the callback.
C7_BadImageIsSoftMiss ==
  (io.read = "cold" /\ FromPanics(FromBytes(disk[Key]).v)) =>
    /\ pc \in {"producer", "pipeline", "write", "done"}
    /\ ret.kind # "Panic"

\* C8: at no moment are more than 5 spawned tasks unfinished, whatever the
\* number of catalog items, and an item past the first 5 is spawned only
\* after enough earlier tasks have finished.
C8_BoundedFanOut ==
  /\ Cardinality(running) <= FetchWidth
  /\ Cardinality(running) + Len(ready) <= FetchWidth
  /\ \A j \in 1..spawned : spawned - Cardinality(running) >= j - FetchWidth

\* the window is full and items are waiting
C8_Witness ==
  /\ pc = "pipeline"
  /\ Cardinality(running) = FetchWidth
  /\ spawned < Len(catalog)

PipelineComplete ==
  pc = "pipeline" /\ spawned = Len(catalog) /\ running = {} /\ ready = <<>>

\* C9: when every item has been attempted, the fold holds exactly one emote
\* for each item whose task succeeded, N - M in all, and the callback
\* answers Ok with that EmoteSet: no failure of an item fails the call.
C9_PartialFailure ==
  /\ pc # "crashed"
  /\ PipelineComplete =>
       /\ Len(set1) = Len(catalog) - Cardinality(failed)
       /\ \A i \in 1..Len(catalog) :
            Cardinality({ j \in 1..Len(set1) : set1[j].name = catalog[i] })
              = IF i \in failed THEN 0 ELSE 1
  /\ pc \in {"write", "done"} =>
       /\ pending.tag = "EmoteSet"
       /\ ret.kind = "Err" => io.write = "ioerr"

C9_Witness ==
  /\ PipelineComplete
  /\ Cardinality(failed) = 2
  /\ Len(set1) = Len(catalog) - 2

StoredKeys == { lru[i].key : i \in 1..Len(lru) } \cup DOMAIN disk

\* C10: the keys get_client_id derives for different tokens differ, and no
\* key in the table or in the store contains a token.
C10_KeyPrivacy ==
  /\ \A s1 \in Tokens, s2 \in Tokens :
       s1 # s2 => ClientIdKey(s1) # ClientIdKey(s2)
  /\ \A t \in Tokens : ~IsSubstring(t, Key)
  /\ \A k \in StoredKeys : \A t \in Tokens : ~IsSubstring(t, k)

\* the results for two tokens and for a login name are stored
C10_Witness ==
  /\ \A t \in Tokens : ClientIdKey(t) \in DOMAIN disk
  /\ \E u \in Usernames : UserIdKey(u) \in DOMAIN disk
  /\ \E i \in 1..Len(lru) : \E t \in Tokens : lru[i].key = ClientIdKey(t)

\* C11: after any sequence of calls the table holds at most LruCapacity
\* entries (100 in the program, scaled here) and no key is held twice: a
\* put for a resident key replaces its value, so the table maps the key
\* of a call that returned Ok to the returned value alone.
C11_BoundedTable ==
  /\ Len(lru) <= LruCapacity
  /\ \A i, j \in 1..Len(lru) : lru[i].key = lru[j].key => i = j
  /\ (pc = "done" /\ ret.kind = "Ok") =>
       \A i \in 1..Len(lru) : lru[i].key = Key => lru[i].val = ret.val

\* the table is full, three keys have been stored, and a call has just
\* put its value in the full table
C11_Witness ==
  /\ Len(lru) = LruCapacity
  /\ Cardinality(DOMAIN disk) > LruCapacity
  /\ pc = "done"
  /\ invoked = 1
  /\ ret.kind = "Ok"
  /\ HotMaps(Key, ret.val)

\* the keys of the table, in the table's order
KeysOf(l) == [i \in 1..Len(l) |-> l[i].key]

\* C12: the table holds the keys the calls used last, latest first, a use
\* being a hit in the table, an insert after a disk hit or the write-back
\* of a callback's value; so a key leaves the table only when a new key is
\* put in the full table, and the key that leaves is the least recently
\* used one (or when the process ends).
C12_EvictsLeastRecent ==
  [][ /\ KeysOf(lru') = recent'
      /\ \A k \in Keys :
           (LruContains(lru, k) /\ ~LruContains(lru', k)) =>
             \/ lru' = <<>> /\ pc' = "idle"
             \/ /\ Len(lru) = LruCapacity
                /\ Len(lru') = LruCapacity
                /\ ~LruContains(lru, lru'[1].key)
                /\ KeysOf(lru) = recent
                /\ k = recent[Len(recent)] ]_vars

\* a call has put a new key in the full table: a stored key is no longer
\* resident and the call's key is the most recently used
C12_Witness ==
  /\ pc = "done"
  /\ invoked = 1
  /\ ret.kind = "Ok"
  /\ Len(lru) = LruCapacity
  /\ lru[1].key = Key
  /\ recent = KeysOf(lru)
  /\ \E k \in DOMAIN disk : FromBytes(disk[k]).ok /\ ~LruContains(lru, k)

\* stored bytes from which a Value can be made: they decode to a
\* RawCacheValue that From accepts
Decodable(bytes) == FromBytes(bytes).ok /\ ~FromPanics(FromBytes(bytes).v)

\* a key in the table and in the store holds, in the table, the Value made
\* from the stored RawCacheValue
Coherent(k) ==
  (LruContains(lru, k) /\ k \in DOMAIN disk /\ Decodable(disk[k])) =>
    LruValue(lru, k) = ValueFrom(FromBytes(disk[k]).v)

\* the keys of the three public callers: every call for them passes
\* use_disk_cache = true
DiskKeys ==
  { ClientIdKey(t) : t \in Tokens } \cup { UserIdKey(u) : u \in Usernames }
    \cup { EmotesKey }

\* C13 as stated: whatever mix of use_disk_cache the calls pass, a key
\* that is in the table and in the store holds in the table the Value made
\* from the stored RawCacheValue.
C13_CoherentAnyMix == \A k \in Keys : Coherent(k)

\* C13: for a key whose calls all pass use_disk_cache = true (the
\* three public callers), in every reachable state, if the key is in the
\* table and in the store with bytes that decode, the table's value is the
\* Value made from the stored RawCacheValue.
C13_CoherentWithDisk == \A k \in DiskKeys : Coherent(k)

\* the emote set is in both tiers after an earlier value of it was stored:
\* the call's read of the store failed and its write-back replaced both
C13_Witness ==
  /\ pc = "done"
  /\ Key = EmotesKey
  /\ io.read = "ioerr"
  /\ io.write = "ok"
  /\ LruContains(lru, Key)
  /\ Key \in DOMAIN disk
  /\ Decodable(disk[Key])

\* a call enters Cache::cache
AnyEnter == GetClientId \/ GetUserId \/ GetGlobalEmotes \/ CacheCall

\* a call of Cache::cache is between its read step and its return
InProgress == pc \in {"producer", "pipeline", "write"}

DistinctNames(es) ==
  \A i, j \in 1..Len(es) : es[i].name = es[j].name => i = j

\* C15 as stated: every EmoteSet in the table or in the store has pairwise
\* distinct emote names, whatever catalog the endpoint answered with.
C15_DistinctNames ==
  /\ \A i \in 1..Len(lru) :
       lru[i].val.tag = "EmoteSet" => DistinctNames(lru[i].val.emotes)
  /\ \A k \in DOMAIN disk :
       (FromBytes(disk[k]).ok /\ FromBytes(disk[k]).v.tag = "EmoteSet") =>
         DistinctNames(FromBytes(disk[k]).v.emotes)

StoredDecodable(k) == k \in DOMAIN disk /\ Decodable(disk[k])

\* a call with use_disk_cache = true for a key stored with decodable
\* bytes, whose read step hits the table or reads the store, returns the
\* resident value or the Value made from the stored bytes, does not invoke
\* the callback and leaves the store alone
ServedFromCache ==
  (/\ EnterStep
   /\ call'.use_disk
   /\ StoredDecodable(call'.key)
   /\ io'.read \in {"hot", "cold"}) =>
     /\ pc' = "done"
     /\ invoked' = 0
     /\ disk' = disk
     /\ ret' = RetOk(IF io'.read = "hot" THEN LruValue(lru, call'.key)
                     ELSE ValueFrom(FromBytes(disk[call'.key]).v))

\* C17 as stated: once the store holds decodable bytes for a key no step
\* of any later call changes or removes them, and a later call with
\* use_disk_cache = true whose read succeeds is served from them or from
\* the table without invoking the callback.
C17_NeverRewritten ==
  [][ /\ \A k \in Keys :
           StoredDecodable(k) => (k \in DOMAIN disk' /\ disk'[k] = disk[k])
      /\ ServedFromCache ]_vars

\* C17: once the store holds decodable bytes for a key no later call
\* removes them, and they change only in the write-back of a call for that
\* key with use_disk_cache = true whose read of the store failed with an
\* I/O error (it took the key for missing and invoked the callback); a
\* later call with use_disk_cache = true whose read succeeds is served
\* from the stored bytes or from the table without invoking the callback,
\* across evictions and new processes.
C17_RewrittenOnlyAfterReadError ==
  [][ /\ \A k \in Keys :
           StoredDecodable(k) =>
             /\ k \in DOMAIN disk'
             /\ disk'[k] # disk[k] =>
                  /\ pc = "write"
                  /\ call.key = k
                  /\ call.use_disk
                  /\ io.read = "ioerr"
      /\ ServedFromCache ]_vars

\* a call in a later process was served from bytes that an earlier call
\* stored, while two other keys fill the table's history
C17_Witness ==
  /\ pc = "done"
  /\ call.use_disk
  /\ io.read = "cold"
  /\ invoked = 0
  /\ StoredDecodable(Key)
  /\ ret = RetOk(ValueFrom(FromBytes(disk[Key]).v))
  /\ Cardinality(DOMAIN disk) > LruCapacity

\* the store without key k
DiskWithout(k) == [x \in DOMAIN disk \ {k} |-> disk[x]]

\* C18: a read of the store that fails with an I/O error is a miss like
\* that of a key that is not stored: read_cache gives the same answer as
\* it would were the key absent, the read step returns no error and does
\* not panic, the callback is invoked once, and its value is written to
\* the store, put in the table and returned.
C18_ReadErrorIsMiss ==
  /\ \A k \in DOMAIN disk :
       ReadCache(lru, disk, TRUE, k, "ioerr")
         = ReadCache(lru, DiskWithout(k), TRUE, k, "ok")
  /\ io.read = "ioerr" =>
       /\ pc = "producer" => (invoked = 0 /\ ret = NoRet)
       /\ pc \in {"pipeline", "write", "done", "crashed"} => invoked = 1
       /\ (pc = "done" /\ io.write = "ok") =>
            /\ ret = RetOk(ValueFrom(pending))
            /\ disk[Key] = ToBytes(pending)
            /\ HotMaps(Key, ValueFrom(pending))

\* the read of a stored key failed, the callback ran once and its value
\* replaced the stored one and was returned
C18_Witness ==
  /\ pc = "done"
  /\ io.read = "ioerr"
  /\ io.write = "ok"
  /\ invoked = 1
  /\ ret = RetOk(ValueFrom(pending))
  /\ disk[Key] = ToBytes(pending)
  /\ HotMaps(Key, ValueFrom(pending))

\* C19: a call with use_disk_cache = false never reads and never writes
\* the store: what its read step answers does not depend on what the
\* store holds or on how a read of it would end, and no step of the call
\* (hit in the table, miss with a callback that answers, miss with a
\* callback that fails) changes the store.
C19_NoDiskUntouched ==
  [][ /\ \A k \in Keys, rd \in IoOutcomes :
           ReadCache(lru, disk, FALSE, k, rd)
             = ReadCache(lru, EmptyDisk, FALSE, k, "ok")
      /\ (call'.api # "none" /\ ~call'.use_disk) => disk' = disk ]_vars

\* a call with use_disk_cache = false has written its callback's value
\* back while the store holds another value for the key
C19_Witness ==
  /\ pc = "done"
  /\ ~call.use_disk
  /\ call.api = "cache"
  /\ invoked = 1
  /\ ret = RetOk(ValueFrom(pending))
  /\ StoredDecodable(Key)
  /\ disk[Key] # ToBytes(pending)

\* the names of an emote list, in its order
NamesOf(es) == [i \in 1..Len(es) |-> es[i].name]

\* every catalog item spawned so far has been attempted once: it is
\* running or has finished, with an emote or without, and never both
AttemptedOnce ==
  /\ spawned <= Len(catalog)
  /\ running \subseteq 1..spawned
  /\ Cardinality(running) + Len(completed) + Cardinality(failed) = spawned
  /\ \A i, j \in 1..Len(ready) : ready[i].idx = ready[j].idx => i = j
  /\ \A i \in 1..Len(ready) : ready[i].idx \notin running

\* the emotes collected, then those finished and waiting in the buffer,
\* are the successful tasks in the order in which they finished
CompletionOrder ==
  LET waiting == SelectSeq(ready, LAMBDA r : r.some)
  IN NamesOf(set1) \o [i \in 1..Len(waiting) |-> waiting[i].raw.name]
       = completed

\* C20: when every spawned task runs to its end the pipeline comes to its
\* end; it ends only when every catalog item has been attempted (once) and
\* every result has been collected, and the emotes it returns are in the
\* order in which their tasks finished.
C20_PipelineCompletes ==
  /\ (pc = "pipeline") ~> (pc = "write")
  /\ [](AttemptedOnce /\ CompletionOrder)
  /\ [][ (pc = "pipeline" /\ pc' # "pipeline") =>
           /\ spawned = Len(catalog)
           /\ running = {}
           /\ ready = <<>>
           /\ Len(completed) + Cardinality(failed) = Len(catalog)
           /\ pending' = RawEmoteSet(set1)
           /\ NamesOf(set1) = completed ]_vars

\* every task has finished with an emote and all are collected, the first
\* of them not being the catalog's first: completion order, not request
\* order
C20_Witness ==
  /\ pc = "pipeline"
  /\ spawned = Len(catalog)
  /\ running = {}
  /\ ready = <<>>
  /\ Len(set1) = Len(catalog)
  /\ NamesOf(set1) = completed
  /\ set1[1].name # catalog[1]

\* a step of Tui::run that hands a key event to State::key_event
KeyStep == ui = "recv" /\ ui' = "tail" /\ Head(event_rx).kind = "Key"

\* C21: quit becomes true only in the handling of a 'q' or Esc key event
\* received while the text area is not focused; a key event received while
\* it is focused never sets quit (Esc only clears the focus, 'q' and 'i'
\* are typed into the text area), and every key event sets request_redraw.
C21_QuitOnlyUnfocused ==
  [][ /\ (~quit /\ quit') =>
           /\ KeyStep
           /\ Head(event_rx).code \in {"q", "Esc"}
           /\ ~textarea_focused
      /\ (KeyStep /\ textarea_focused) =>
           /\ quit' = quit
           /\ Head(event_rx).code = "Esc" =>
                (~textarea_focused' /\ textarea' = textarea)
           /\ Head(event_rx).code \in {"q", "i"} =>
                /\ textarea_focused'
                /\ textarea' = Append(textarea, Head(event_rx).code)
      /\ KeyStep => request_redraw' ]_vars

\* 'q' was typed into the focused text area without quitting, Esc cleared
\* the focus and a later 'q' or Esc ended the loop
C21_Witness ==
  /\ ui = "left"
  /\ quit
  /\ ~textarea_focused
  /\ textarea = <<"q">>

\* C22: after any sequence of pushes a Chat's lines are no more than the
\* capacity the deque was allocated with (at least the 100 asked for,
\* scaled here) and are the most recent messages pushed, newest first: a
\* push onto a full deque drops the oldest line alone; bg_darken flips on
\* every push.
C22_ChatKeepsNewest ==
  \A c \in DOMAIN tabs :
    LET chat == tabs[c]
        n == Len(pushed[c])
    IN /\ chat.capacity >= LinesRequested
       /\ Len(chat.lines) = Min(n, chat.capacity)
       /\ \A i \in 1..Len(chat.lines) :
            /\ chat.lines[i].msg = pushed[c][n + 1 - i].msg
            /\ chat.lines[i].username = pushed[c][n + 1 - i].username
       /\ chat.bg_darken = (n % 2 = 1)

\* more messages have been pushed to a Chat than its deque has room for
C22_Witness ==
  \E c \in DOMAIN tabs :
    /\ Len(pushed[c]) > tabs[c].capacity
    /\ Len(tabs[c].lines) = tabs[c].capacity
    /\ tabs[c].lines[1].msg = pushed[c][Len(pushed[c])].msg

\* the message an Enter key event makes of the text area
Outgoing == Msg(active_tab, ConfigUser, textarea)

\* C23 as stated: an Enter key event received while the text area is
\* focused (an active tab is always set) sends one ev::Send::Message
\* for the active channel and pushes that message once to the active
\* tab's Chat, an Enter received while it is not focused sends nothing;
\* and the messages sent reach the chat task in the order sent, none
\* dropped and none twice: those sent are those the client has put on the
\* wire, then those waiting for the chat task, then those waiting for the
\* handler.
C23_SentOnceInOrder ==
  [][ /\ (KeyStep /\ Head(event_rx).code = "Enter" /\ textarea_focused) =>
           /\ emitted' = Append(emitted, Outgoing)
           /\ handler_rx' = Append(handler_rx, Outgoing)
           /\ active_tab \in DOMAIN tabs
           /\ pushed'[active_tab] = Append(pushed[active_tab], Outgoing)
           /\ tabs'[active_tab].lines[1].msg = textarea
      /\ (KeyStep /\ Head(event_rx).code = "Enter" /\ ~textarea_focused) =>
           /\ emitted' = emitted
           /\ handler_rx' = handler_rx
           /\ pushed' = pushed
      /\ emitted' = wire' \o message_rx' \o handler_rx' ]_vars

====
